---- MODULE Spec2Model ----
(***************************************************************************)
(* The query resolution pipeline of the Chinook text-to-SQL agents:        *)
(*   agent.py             run_query              (variant "agent")         *)
(*   sql_agent.py         SQLAgent.query_database   (variant "sql_agent")  *)
(*   text_to_sql_agent.py TextToSQLAgent.query   (variant "text_to_sql")   *)
(*   agent_simple.py      query_database         (variant "agent_simple")  *)
(* Each is a three-stage graph generate_sql -> execute_sql ->              *)
(* generate_response over a per-invocation state dictionary, sharing one   *)
(* storage connection per process (specification Spec).                    *)
(* SharedSpec is agent.py's execute_query called from several threads on   *)
(* its one cursor; DbSpec is the life cycle of database.py's               *)
(* ChinookDatabase; SimpleSpec is agent_simple.py's rule-based pipeline,   *)
(* query_database_simple; IntrospectSpec is the schema introspection the   *)
(* constructors run on the loaded dataset.                                 *)
(*                                                                         *)
(* Texts (queries, error strings, answers) are sequences of fragments, so  *)
(* that strip, upper, startswith, replace and substring tests are computed *)
(* on them as the code computes them on strings.                           *)
(***************************************************************************)
EXTENDS Integers, Sequences, FiniteSets, TLC

VARIABLES variant, pc, st, dataset, supersteps, calls, marked, fault, raised,
          stub, prev, schema_info, cursor, inv, db, ret, simple

vars == <<variant, pc, st, dataset, supersteps, calls, marked, fault, raised,
          stub, prev, schema_info, cursor, inv, db, ret, simple>>

\* the state of what the pipelines do not touch while they run: agent.py's
\* shared cursor and the callers of its execute_query, and database.py's
\* ChinookDatabase object and what its last call returned, and
\* agent_simple.py's rule-based pipeline (simple)
others == <<cursor, inv, db, ret, simple>>

\* the state of a pipeline invocation
invocation == <<variant, pc, st, supersteps, calls, marked, fault, raised,
                stub, prev>>

(***************************************************************************)
(* Bounds of the model.                                                    *)
(***************************************************************************)
\* longest inference response for query generation, in fragments
MaxQueryLen == 3
\* most rows a SELECT returns
MaxRows == 2
\* supersteps the graph runtime lets one invocation take before it aborts
\* the run (the runtime's default is larger; a full run needs 3)
RecursionLimit == 5

\* rows of each table shown as sample data in the schema description
SampleLimit == 3

\* demo.py's _get_sample_data(table_name, limit=2)
DemoSampleLimit == 2

\* the most rows a table holds when the introspectors are checked
MaxTableRows == 4

\* the most words of a question put to agent_simple.py's rule-based pipeline
MaxWords == 4
\* the row cap a result set is measured against (no variant defines one)
ResultCap == 1

(***************************************************************************)
(* Texts.                                                                  *)
(***************************************************************************)
Variants == {"agent", "sql_agent", "text_to_sql", "agent_simple"}

\* The fragments an inference response for query generation is made of.
\* Each variant is offered the sentinel its own prompt asks for. "<fence>sql"
\* is the opening Markdown code fence (three backquotes and "sql").
Tokens(v) ==
  CASE v = "agent"       -> {" ", "select", "DELETE", ";"}
    [] v = "sql_agent"   -> {" ", "select", "DELETE", ";", "NO_ANSWER"}
    [] v = "text_to_sql" -> {" ", "select", "DELETE", ";", "cannot_answer", "<fence>sql"}
    [] v = "agent_simple" -> {" ", "select", "DELETE", ";", "'IRRELEVANT_QUERY' as result"}

Responses(v) == UNION {[1..n -> Tokens(v)] : n \in 0..MaxQueryLen}

\* str.upper() and str.lower(), fragment by fragment
UpperTok(t) ==
  CASE t = "select"        -> "SELECT"
    [] t = "cannot_answer" -> "CANNOT_ANSWER"
    [] OTHER               -> t

LowerTok(t) ==
  CASE t = "Don't Know" -> "don't know"
    [] OTHER            -> t

Upper(s) == [i \in DOMAIN s |-> UpperTok(s[i])]

Lower(s) == [i \in DOMAIN s |-> LowerTok(s[i])]

RECURSIVE LStrip(_)
LStrip(s) == IF s # <<>> /\ Head(s) = " " THEN LStrip(Tail(s)) ELSE s

RECURSIVE RStrip(_)
RStrip(s) ==
  IF s # <<>> /\ s[Len(s)] = " " THEN RStrip(SubSeq(s, 1, Len(s) - 1)) ELSE s

\* str.strip()
Strip(s) == RStrip(LStrip(s))

\* str.startswith(t)
StartsWith(s, t) == s # <<>> /\ Head(s) = t

\* t in s
Contains(s, t) == \E i \in DOMAIN s : s[i] = t

\* str.replace(t, "")
Remove(s, t) == SelectSeq(s, LAMBDA x : x # t)

\* truth value of a Python str
Truthy(s) == s # <<>>

(***************************************************************************)
(* The fixed texts of the variants.                                        *)
(***************************************************************************)
DontKnow == <<"I ", "don't know", " the answer to that question.">>

DontKnowChinook ==
  <<"I ", "don't know", " the answer to that question.",
    " I can only help with questions that can be answered using the Chinook music database.">>

EncounteredError == <<"I encountered an error processing your query.">>

\* agent_simple.py's two refusals
DontKnowMusicDatabase ==
  <<"I ", "don't know", " the answer to that question.",
    " I can only answer questions about the music database including artists, albums, tracks, customers, and sales data.">>

DontKnowAvailableData ==
  <<"I ", "don't know", " the answer to that question based on the available data.">>

\* the query agent_simple.py's prompt asks for when the question is not
\* relevant: SELECT 'IRRELEVANT_QUERY' as result;
IrrelevantQuery == <<"select", "'IRRELEVANT_QUERY' as result", ";">>

NoResultsForQuery == <<"No results found for your query.">>

OnlySelectAllowed == <<"Only SELECT queries are allowed">>

CannotBeAnsweredError ==
  <<"Question ", "cannot be answered", " with the available database">>

QueryCannotBeAnswered == <<"Query cannot be answered with available data">>

NoSqlQuery == <<"No SQL query to execute">>

NoneNotIterable == <<"'NoneType' object is not iterable">>

OneStatementOnly == <<"You can only execute one statement at a time.">>

\* messages the storage engine raises with when it rejects a statement
EngineErrors ==
  { <<"near \"x\": syntax error">>,
    <<"no such table: ", "cannot be answered">> }

\* messages a failing inference call raises with
LlmErrors == { <<"APITimeoutError: request timed out">> }

\* texts the inference capability synthesizes
SynthTexts == { <<"There are 275 artists.">> }

Confidences == {"High", "Medium", "Low"}

Explanations ==
  { <<"Counts the rows of Artist">>,
    <<"I ", "Don't Know", " how to answer that from the schema">> }

(***************************************************************************)
(* The storage engine: one sqlite3 connection, shared by every invocation. *)
(***************************************************************************)
\* the tables of the dataset; a row is its table and its rowid
Tables == {"Artist", "Album"}

\* the dataset as the bulk load leaves it
LoadedDataset == {<<"Artist", 1>>}

\* the statement keywords the engine knows, among the fragments
ReadKeywords == {"SELECT"}

WriteKeywords == {"DELETE"}

\* an outcome of cursor.execute(query): rows of a result set, a statement
\* that ran and has no result set (cursor.description is None), or an
\* exception; data is the dataset afterwards. cols are the column names of
\* cursor.description, one per value of a row, and val stands for the values
\* of the rows.
EngineRows(n, cols, val, data) ==
  [kind |-> "rows", n |-> n, msg |-> <<>>, data |-> data, cols |-> cols,
   val |-> val]

EngineNoData(data) ==
  [kind |-> "nodata", n |-> 0, msg |-> <<>>, data |-> data, cols |-> <<>>,
   val |-> "value"]

EngineRaises(msg, data) ==
  [kind |-> "error", n |-> 0, msg |-> msg, data |-> data, cols |-> <<>>,
   val |-> "value"]

NoOutcome ==
  [kind |-> "unreached", n |-> 0, msg |-> <<>>, data |-> {}, cols |-> <<>>,
   val |-> "value"]

\* the column names a SELECT over the tables reports: the names of its
\* select list, which need not differ (SELECT ar.Name, g.Name ...)
ColumnLists == {<<"Name", "Title">>, <<"Name", "Name">>}

\* the engine skips leading whitespace and empty statements
RECURSIVE SkipLeading(_)
SkipLeading(q) ==
  IF q # <<>> /\ Head(q) \in {" ", ";"} THEN SkipLeading(Tail(q)) ELSE q

\* the text after the first statement's terminator
RECURSIVE AfterTerminator(_)
AfterTerminator(q) ==
  IF q = <<>> THEN <<>>
  ELSE IF Head(q) = ";" THEN Tail(q)
  ELSE AfterTerminator(Tail(q))

\* more than one statement: anything but whitespace follows the first
MultiStatement(q) ==
  \E i \in DOMAIN AfterTerminator(SkipLeading(q)) :
      AfterTerminator(SkipLeading(q))[i] # " "

\* a SELECT of nothing but the literal 'IRRELEVANT_QUERY' as result
SelectsIrrelevantLiteral(q) ==
  LET body == SkipLeading(q)
  IN  /\ Len(body) >= 2
      /\ UpperTok(body[1]) = "SELECT"
      /\ body[2] = "'IRRELEVANT_QUERY' as result"
      /\ \A i \in 3..Len(body) : body[i] \in {" ", ";"}

\* what cursor.execute(q) can do on dataset data. Statement keywords are
\* case-insensitive. A statement's clauses are not modelled, so the engine
\* may reject any statement, a SELECT may return any number of rows and a
\* DELETE may delete any of the rows.
EngineExecute(q, data) ==
  LET body == SkipLeading(q)
      rejected == {EngineRaises(m, data) : m \in EngineErrors}
  IN  IF body = <<>> THEN {EngineNoData(data)}
      ELSE IF MultiStatement(q) THEN {EngineRaises(OneStatementOnly, data)}
      ELSE IF SelectsIrrelevantLiteral(q)
        THEN {EngineRows(1, <<"result">>, "IRRELEVANT_QUERY", data)}
      ELSE IF UpperTok(Head(body)) \in ReadKeywords
        THEN {EngineRows(n, c, "value", data) :
                n \in 0..MaxRows, c \in ColumnLists} \cup rejected
      ELSE IF UpperTok(Head(body)) \in WriteKeywords
        THEN {EngineNoData(d) : d \in SUBSET data} \cup rejected
      ELSE rejected

(***************************************************************************)
(* The per-invocation state dictionary.  sql_result is None, a str, a list *)
(* of row dicts or an error dict, depending on the variant and the stage.  *)
(***************************************************************************)
\* a row as a dict: dict(zip(columns, row)) and dict(sqlite3.Row) keep one
\* entry per distinct column name
RowDict(cols, val) == [c \in {cols[i] : i \in DOMAIN cols} |-> val]

NoRow == RowDict(<<>>, "value")

ResNone == [kind |-> "None", n |-> 0, msg |-> <<>>, row |-> NoRow]

ResEmptyStr == [kind |-> "str_empty", n |-> 0, msg |-> <<>>, row |-> NoRow]

ResNoResultsFound ==
  [kind |-> "str_no_results", n |-> 0, msg |-> <<>>, row |-> NoRow]

ResTable(n) == [kind |-> "str_table", n |-> n, msg |-> <<>>, row |-> NoRow]

\* a list of n row dicts, each like row
ResRows(n, row) ==
  [kind |-> "rows", n |-> n, msg |-> <<>>,
   row |-> IF n = 0 THEN NoRow ELSE row]

ResErrorDict(msg) ==
  [kind |-> "error_dict", n |-> 0, msg |-> msg, row |-> NoRow]

\* truth value of a sql_result
ResultTruthy(r) ==
  CASE r.kind = "None"           -> FALSE
    [] r.kind = "str_empty"      -> FALSE
    [] r.kind = "str_no_results" -> TRUE
    [] r.kind = "str_table"      -> TRUE
    [] r.kind = "rows"           -> r.n > 0
    [] r.kind = "error_dict"     -> TRUE

InitialState(v) ==
  [sql_query  |-> <<>>,
   sql_result |-> CASE v = "agent"       -> ResNone
                    [] v = "sql_agent"   -> ResEmptyStr
                    [] v = "text_to_sql" -> ResRows(0, NoRow)
                    [] v = "agent_simple" -> ResRows(0, NoRow),
   error      |-> <<>>,
   answer     |-> <<>>]

(***************************************************************************)
(* The inference capability: what a call returns or raises.                *)
(***************************************************************************)
PlainExplanation == <<"Counts the rows of Artist">>

GenText(text, confidence, explanation) ==
  [kind |-> "text", text |-> text, confidence |-> confidence,
   explanation |-> explanation, msg |-> <<>>]

LlmRaises(msg) ==
  [kind |-> "raise", text |-> <<>>, confidence |-> "High",
   explanation |-> PlainExplanation, msg |-> msg]

\* agent.py asks for the structured SQLQuery {sql_query, confidence,
\* explanation} and agent_simple.py for {query, reasoning}; the other two
\* read the response's content
GenOutcomes(v) ==
  {GenText(r, c, e) :
     r \in Responses(v),
     c \in IF v = "agent" THEN Confidences ELSE {"High"},
     e \in IF v = "agent" THEN Explanations ELSE {PlainExplanation}}
  \cup {LlmRaises(m) : m \in LlmErrors}

SynthOutcomes ==
  {GenText(t, "High", PlainExplanation) : t \in SynthTexts}
  \cup {LlmRaises(m) : m \in LlmErrors}

NoCall == [kind |-> "uncalled", text |-> <<>>, confidence |-> "High",
           explanation |-> PlainExplanation, msg |-> <<>>]

(***************************************************************************)
(* agent.py                                                                *)
(***************************************************************************)
\* the relevance check of sql_generation_node
A_unanswerable(out) ==
  Contains(Lower(out.explanation), "don't know") \/ out.confidence = "Low"

\* sql_generation_node passing the candidate on whatever its confidence
A_sql_generation_node_keeping_query(s, out) ==
  [s EXCEPT !.sql_query = out.text]

A_sql_generation_node(s, out) ==
  IF A_unanswerable(out)
    THEN [s EXCEPT !.sql_query = <<>>]
    ELSE [s EXCEPT !.sql_query = out.text]

\* a security check that looks for SELECT anywhere in the query
A_only_select_anywhere(query) == Contains(Upper(Strip(query)), "SELECT")

\* the security check of ChinookDatabase.execute_query
A_only_select(query) == StartsWith(Upper(Strip(query)), "SELECT")

A_execute_query(query, eo) ==
  IF ~A_only_select(query) THEN ResErrorDict(OnlySelectAllowed)
  ELSE CASE eo.kind = "rows"   -> ResRows(eo.n, RowDict(eo.cols, eo.val))
         [] eo.kind = "nodata" -> ResErrorDict(NoneNotIterable)
         [] OTHER              -> ResErrorDict(eo.msg)

A_sql_execution_node(s, eo) ==
  IF ~Truthy(s.sql_query)
    THEN [s EXCEPT !.sql_result = ResNone]
    ELSE [s EXCEPT !.sql_result = A_execute_query(s.sql_query, eo)]

\* whether sql_execution_node gets as far as cursor.execute
A_reaches_engine(s) == Truthy(s.sql_query) /\ A_only_select(s.sql_query)

\* whether response_generation_node gets as far as model.invoke
A_reaches_synthesis(s) ==
  ResultTruthy(s.sql_result) /\ s.sql_result.kind # "error_dict"

\* response_generation_node without its test for an error value
A_response_generation_node_unchecked(s, so) ==
  IF ~ResultTruthy(s.sql_result) THEN [s EXCEPT !.answer = DontKnow]
  ELSE [s EXCEPT !.answer = so.text]

A_response_generation_node(s, so) ==
  IF ~ResultTruthy(s.sql_result) THEN [s EXCEPT !.answer = DontKnow]
  ELSE IF s.sql_result.kind = "error_dict"
    THEN [s EXCEPT !.answer = EncounteredError]
  ELSE [s EXCEPT !.answer = so.text]

A_should_execute_sql(s) ==
  IF Truthy(s.sql_query) THEN "execute_sql" ELSE "generate_response"

(***************************************************************************)
(* sql_agent.py                                                            *)
(***************************************************************************)
S_unanswerable(out) == Strip(out.text) = <<"NO_ANSWER">>

S_generate_sql_node(s, out) ==
  IF S_unanswerable(out)
    THEN [s EXCEPT !.sql_query = <<>>, !.error = CannotBeAnsweredError]
    ELSE [s EXCEPT !.sql_query = Strip(out.text), !.error = <<>>]

S_reaches_engine(s) == ~(~Truthy(s.sql_query) \/ Truthy(s.error))

S_execute_sql_node(s, eo) ==
  IF ~S_reaches_engine(s)
    THEN [s EXCEPT !.sql_result = ResEmptyStr, !.error = s.error]
  ELSE CASE eo.kind = "rows" ->
              [s EXCEPT !.sql_result = IF eo.n = 0 THEN ResNoResultsFound
                                       ELSE ResTable(eo.n),
                        !.error = <<>>]
         [] eo.kind = "nodata" ->
              [s EXCEPT !.sql_result = ResEmptyStr,
                        !.error = <<"SQL execution error: ">> \o NoneNotIterable]
         [] OTHER ->
              [s EXCEPT !.sql_result = ResEmptyStr,
                        !.error = <<"SQL execution error: ">> \o eo.msg]

S_reaches_synthesis(s) == ~Truthy(s.error)

S_generate_response_node(s, so) ==
  IF Truthy(s.error)
    THEN IF Contains(s.error, "cannot be answered")
           THEN [s EXCEPT !.answer = DontKnowChinook]
           ELSE [s EXCEPT !.answer = DontKnow]
    ELSE [s EXCEPT !.answer = so.text]

\* _should_continue without its two tests of the error field
S_should_continue_ignoring_error(s) ==
  IF Truthy(s.sql_query) /\ ~ResultTruthy(s.sql_result) THEN "execute_sql"
  ELSE IF ResultTruthy(s.sql_result) THEN "generate_response"
  ELSE "execute_sql"

S_should_continue(s) ==
  IF Truthy(s.error) /\ Contains(s.error, "cannot be answered")
    THEN "generate_response"
  ELSE IF Truthy(s.error) THEN "generate_response"
  ELSE IF Truthy(s.sql_query) /\ ~ResultTruthy(s.sql_result) THEN "execute_sql"
  ELSE IF ResultTruthy(s.sql_result) THEN "generate_response"
  ELSE "execute_sql"

(***************************************************************************)
(* text_to_sql_agent.py                                                    *)
(***************************************************************************)
T_unanswerable(out) ==
  out.kind = "text" /\ Contains(Upper(Strip(out.text)), "CANNOT_ANSWER")

T_generate_sql(s, out) ==
  IF out.kind = "raise"
    THEN [s EXCEPT !.error = <<"Error generating SQL: ">> \o out.msg]
  ELSE IF T_unanswerable(out)
    THEN [s EXCEPT !.error = QueryCannotBeAnswered]
  ELSE [s EXCEPT !.sql_query =
          Strip(Remove(Remove(Strip(out.text), "<fence>sql"), "<fence>"))]

T_reaches_engine(s) == ~Truthy(s.error) /\ Truthy(s.sql_query)

T_execute_sql(s, eo) ==
  IF Truthy(s.error) THEN s
  ELSE IF ~Truthy(s.sql_query) THEN [s EXCEPT !.error = NoSqlQuery]
  ELSE CASE eo.kind = "rows" ->
              [s EXCEPT !.sql_result = ResRows(eo.n, RowDict(eo.cols, eo.val))]
         [] eo.kind = "nodata" -> [s EXCEPT !.sql_result = ResRows(0, NoRow)]
         [] OTHER ->
              [s EXCEPT !.error = <<"SQL execution error: ">> \o eo.msg]

T_reaches_synthesis(s) == ~Truthy(s.error) /\ ResultTruthy(s.sql_result)

\* a generate_response that does not look at the error field
T_generate_response_ignoring_error(s, so) ==
  IF ~ResultTruthy(s.sql_result)
    THEN [s EXCEPT !.answer = NoResultsForQuery]
  ELSE IF so.kind = "raise"
    THEN [s EXCEPT !.answer = <<"Error generating response: ">> \o so.msg]
  ELSE [s EXCEPT !.answer = Strip(so.text)]

T_generate_response(s, so) ==
  IF Truthy(s.error) THEN [s EXCEPT !.answer = DontKnow]
  ELSE IF ~ResultTruthy(s.sql_result)
    THEN [s EXCEPT !.answer = NoResultsForQuery]
  ELSE IF so.kind = "raise"
    THEN [s EXCEPT !.answer = <<"Error generating response: ">> \o so.msg]
  ELSE [s EXCEPT !.answer = Strip(so.text)]

T_should_continue(s) ==
  IF Truthy(s.error) THEN "generate_response"
  ELSE IF ~Truthy(s.sql_query) THEN "generate_sql"
  ELSE IF ~ResultTruthy(s.sql_result) /\ "sql_result" \notin DOMAIN s
    THEN "execute_sql"
  ELSE "generate_response"

(***************************************************************************)
(* agent_simple.py (the graph behind query_database)                       *)
(***************************************************************************)
Q_sql_generation_node(s, out) == [s EXCEPT !.sql_query = out.text]

\* every generated text is handed to cursor.execute
Q_reaches_engine(s) == TRUE

\* a sql_execution_node that hands the engine's error on as the result
Q_sql_execution_node_passing_error(s, eo) ==
  CASE eo.kind = "rows" ->
         [s EXCEPT !.sql_result = ResRows(eo.n, RowDict(eo.cols, eo.val))]
    [] eo.kind = "nodata" -> [s EXCEPT !.sql_result = ResRows(0, NoRow)]
    [] OTHER -> [s EXCEPT !.sql_result = ResErrorDict(eo.msg)]

Q_sql_execution_node(s, eo) ==
  CASE eo.kind = "rows" ->
         [s EXCEPT !.sql_result = ResRows(eo.n, RowDict(eo.cols, eo.val))]
    [] eo.kind = "nodata" -> [s EXCEPT !.sql_result = ResRows(0, NoRow)]
    [] OTHER -> [s EXCEPT !.sql_result = ResRows(0, NoRow)]

\* sql_results[0].get("result") == "IRRELEVANT_QUERY" on a one-row result
Q_irrelevant(r) ==
  /\ ResultTruthy(r)
  /\ r.n = 1
  /\ "result" \in DOMAIN r.row
  /\ r.row["result"] = "IRRELEVANT_QUERY"

Q_reaches_synthesis(s) ==
  ~Q_irrelevant(s.sql_result) /\ ResultTruthy(s.sql_result)

Q_response_generation_node(s, so) ==
  IF Q_irrelevant(s.sql_result) THEN [s EXCEPT !.answer = DontKnowMusicDatabase]
  ELSE IF ~ResultTruthy(s.sql_result)
    THEN [s EXCEPT !.answer = DontKnowAvailableData]
  ELSE [s EXCEPT !.answer = so.text]

(***************************************************************************)
(* The graph of each variant: its nodes and its edges.                     *)
(***************************************************************************)
GenerateNode(v, s, out) ==
  CASE v = "agent"       -> A_sql_generation_node(s, out)
    [] v = "sql_agent"   -> S_generate_sql_node(s, out)
    [] v = "text_to_sql" -> T_generate_sql(s, out)
    [] v = "agent_simple" -> Q_sql_generation_node(s, out)

\* only text_to_sql_agent.py calls the model inside try/except
GenerationCaught(v) == v = "text_to_sql"

SynthesisCaught(v) == v = "text_to_sql"

\* the generator's relevance signal, as each variant's generation node
\* detects it (agent_simple.py's passes every generated text on)
MarkedUnanswerable(v, out) ==
  CASE v = "agent"       -> A_unanswerable(out)
    [] v = "sql_agent"   -> S_unanswerable(out)
    [] v = "text_to_sql" -> T_unanswerable(out)
    [] v = "agent_simple" -> FALSE

ExecuteNode(v, s, eo) ==
  CASE v = "agent"       -> A_sql_execution_node(s, eo)
    [] v = "sql_agent"   -> S_execute_sql_node(s, eo)
    [] v = "text_to_sql" -> T_execute_sql(s, eo)
    [] v = "agent_simple" -> Q_sql_execution_node(s, eo)

ReachesEngine(v, s) ==
  CASE v = "agent"       -> A_reaches_engine(s)
    [] v = "sql_agent"   -> S_reaches_engine(s)
    [] v = "text_to_sql" -> T_reaches_engine(s)
    [] v = "agent_simple" -> Q_reaches_engine(s)

ResponseNode(v, s, so) ==
  CASE v = "agent"       -> A_response_generation_node(s, so)
    [] v = "sql_agent"   -> S_generate_response_node(s, so)
    [] v = "text_to_sql" -> T_generate_response(s, so)
    [] v = "agent_simple" -> Q_response_generation_node(s, so)

ReachesSynthesis(v, s) ==
  CASE v = "agent"       -> A_reaches_synthesis(s)
    [] v = "sql_agent"   -> S_reaches_synthesis(s)
    [] v = "text_to_sql" -> T_reaches_synthesis(s)
    [] v = "agent_simple" -> Q_reaches_synthesis(s)

\* the conditional edge out of generate_sql
RouteAfterGenerate(v, s) ==
  CASE v = "agent"       -> A_should_execute_sql(s)
    [] v = "sql_agent"   -> S_should_continue(s)
    [] v = "text_to_sql" -> T_should_continue(s)
    [] v = "agent_simple" -> "execute_sql"

\* the edge out of execute_sql: conditional in sql_agent.py, fixed elsewhere
RouteAfterExecute(v, s) ==
  CASE v = "agent"       -> "generate_response"
    [] v = "sql_agent"   -> S_should_continue(s)
    [] v = "text_to_sql" -> "generate_response"
    [] v = "agent_simple" -> "generate_response"

\* the stages a conditional edge may name: its path map, or any node of the
\* graph when it is given none
RegisteredTargets(v) ==
  CASE v = "agent"       -> {"execute_sql", "generate_response"}
    [] v = "sql_agent"   -> {"generate_sql", "execute_sql", "generate_response"}
    [] v = "text_to_sql" -> {"execute_sql", "generate_response"}
    [] v = "agent_simple" -> {"execute_sql", "generate_response"}

Nodes == {"generate_sql", "execute_sql", "generate_response"}

(***************************************************************************)
(* The state machine.                                                      *)
(*   variant, pc, st   the running invocation: its pipeline, its stage     *)
(*                     and its state dictionary                            *)
(*   schema_info       the schema description built at startup and put     *)
(*                     into every generation prompt                        *)
(*   dataset           the storage engine's data, shared by all            *)
(*   supersteps        nodes run so far in this invocation                 *)
(*   raised            the exception that escaped the entry point          *)
(*   calls             how often each component was entered in this        *)
(*                     invocation (engine: cursor.execute was reached)     *)
(*   marked            the generated query was marked unanswerable         *)
(*   fault             the messages the inference calls and the engine     *)
(*                     raised with, the engine's outcome, and the schema   *)
(*                     description that went into the generation prompt    *)
(*   stub              the inference responses of this question            *)
(*   prev              the outcome of the previous run of this question    *)
(***************************************************************************)
NoCalls == [generator |-> 0, executor |-> 0, engine |-> 0, synthesizer |-> 0]

\* no schema description
NoSchema == [tables |-> {}, sample |-> [t \in {} |-> {}]]

NoFault == [generation |-> <<>>, execution |-> <<>>, synthesis |-> <<>>,
            outcome |-> "unreached", rows |-> 0, cols |-> <<>>,
            prompt |-> NoSchema]

NoStub == [gen |-> NoCall, synth |-> NoCall]

NoPrev == [valid |-> FALSE, answer |-> <<>>, terminal |-> "none",
           raised |-> "none", execution |-> <<>>, outcome |-> "unreached",
           rows |-> 0, calls |-> NoCalls]

\* the rows a table holds
RowsOf(data, t) == {r \in data : r[1] = t}

\* SELECT * FROM t without a LIMIT: every row of the table
FirstRows_unlimited(rows, limit) == rows

\* SELECT * FROM t LIMIT limit: the first limit rows in rowid order
FirstRows(rows, limit) ==
  {r \in rows : Cardinality({q \in rows : q[2] < r[2]}) < limit}

\* a schema description: every table with its columns, and a sample
\* section, of the first limit rows, for each table the SELECT returned
\* rows for ("if sample_rows:", "if sample_data:")
Describe(data, limit) ==
  [tables |-> Tables,
   sample |-> [t \in {u \in Tables : FirstRows(RowsOf(data, u), limit) # {}}
                 |-> FirstRows(RowsOf(data, t), limit)]]

\* get_schema_info: the tables with their columns, and the first
\* SampleLimit rows of each table as sample data
SchemaDescription(data) == Describe(data, SampleLimit)

\* agent.py's connection is made by the thread that imports the module;
\* execute_query may be called from any thread
Threads == {"main", "worker1", "worker2"}

ConnThread == "main"

\* the shared cursor before any execute: no statement, no description
IdleCursor == [by |-> "none", described |-> FALSE, cols |-> <<>>, n |-> 0,
               val |-> "value"]

\* a thread that is not inside execute_query
IdleInvocation ==
  [pc |-> "idle", query |-> <<>>, cols |-> <<>>, colsBy |-> "none",
   rowsBy |-> "none", result |-> ResNone]

\* database.py's ChinookDatabase as its constructor leaves it
NoDatabase == [conn |-> "None", schema_info |-> "None", data |-> {},
               loaded |-> "none", init |-> "never"]

\* what a method call came to: its kind ("None", "text", "description",
\* "rows" or "raise"), its message, and its n rows as dicts like row
Return(call, kind, msg, n, row) ==
  [call |-> call, kind |-> kind, msg |-> msg, n |-> n,
   row |-> IF n = 0 THEN NoRow ELSE row]

NoReturn == Return("none", "none", <<>>, 0, NoRow)

\* agent_simple.py's rule-based pipeline before any question
IdleSimple ==
  [pc |-> "idle", user_question |-> {}, sql_query |-> "none",
   sql_results |-> ResRows(0, NoRow), failed |-> FALSE,
   response |-> [kind |-> "none", text |-> <<>>]]

\* a generation prompt built from a description of the dataset as it is
\* when the request is served
SchemaForPrompt_live(cached, data) == SchemaDescription(data)

\* the schema description a generation prompt is built from: the one cached
\* at startup (SCHEMA_INFO, self.schema_info)
SchemaForPrompt(cached, data) == cached

Init ==
  /\ variant = "agent"
  /\ pc = "idle"
  /\ st = InitialState("agent")
  /\ dataset = LoadedDataset
  /\ supersteps = 0
  /\ calls = NoCalls
  /\ marked = FALSE
  /\ fault = NoFault
  /\ raised = "none"
  /\ stub = NoStub
  /\ prev = NoPrev
  /\ schema_info = SchemaDescription(LoadedDataset)
  /\ cursor = IdleCursor
  /\ inv = [t \in Threads |-> IdleInvocation]
  /\ db = NoDatabase
  /\ ret = NoReturn
  /\ simple = IdleSimple

Idle == pc \in {"idle", "done", "raised"}

\* an entry point that hands the graph the state dictionary the previous
\* invocation ended with
NewRequest_reusing_state(v) ==
  /\ Idle
  /\ variant' = v
  /\ pc' = "generate_sql"
  /\ st' = st
  /\ supersteps' = 0
  /\ calls' = NoCalls
  /\ marked' = FALSE
  /\ fault' = NoFault
  /\ raised' = "none"
  /\ stub' = NoStub
  /\ prev' = NoPrev
  /\ UNCHANGED dataset
  /\ UNCHANGED <<schema_info, others>>

\* run_query / query_database / query: a fresh initial state for a question
NewRequest(v) ==
  /\ Idle
  /\ variant' = v
  /\ pc' = "generate_sql"
  /\ st' = InitialState(v)
  /\ supersteps' = 0
  /\ calls' = NoCalls
  /\ marked' = FALSE
  /\ fault' = NoFault
  /\ raised' = "none"
  /\ stub' = NoStub
  /\ prev' = NoPrev
  /\ UNCHANGED dataset
  /\ UNCHANGED <<schema_info, others>>

\* what a finished run leaves to compare the next run of the question with
Finished ==
  [valid |-> TRUE, answer |-> st.answer, terminal |-> pc, raised |-> raised,
   execution |-> fault.execution, outcome |-> fault.outcome,
   rows |-> fault.rows, calls |-> calls]

\* the entry point invoked again, the graph run resuming from the state
\* dictionary and the superstep count the previous run ended with
Replay_resuming ==
  /\ pc \in {"done", "raised"}
  /\ prev' = Finished
  /\ pc' = "generate_sql"
  /\ calls' = NoCalls
  /\ marked' = FALSE
  /\ fault' = NoFault
  /\ raised' = "none"
  /\ UNCHANGED <<variant, st, supersteps, dataset, stub>>
  /\ UNCHANGED <<schema_info, others>>

\* the entry point invoked again with the same question, the inference
\* capability answering as it did before
Replay ==
  /\ pc \in {"done", "raised"}
  /\ prev' = Finished
  /\ pc' = "generate_sql"
  /\ st' = InitialState(variant)
  /\ supersteps' = 0
  /\ calls' = NoCalls
  /\ marked' = FALSE
  /\ fault' = NoFault
  /\ raised' = "none"
  /\ UNCHANGED <<variant, dataset, stub>>
  /\ UNCHANGED <<schema_info, others>>

\* the generate_sql node
GenerateSql ==
  /\ pc = "generate_sql"
  /\ supersteps < RecursionLimit
  /\ \E out \in IF stub.gen = NoCall THEN GenOutcomes(variant) ELSE {stub.gen} :
       /\ stub' = [stub EXCEPT !.gen = out]
       /\ calls' = [calls EXCEPT !.generator = @ + 1]
       /\ fault' = [fault EXCEPT !.generation = out.msg,
                                 !.prompt = SchemaForPrompt(schema_info, dataset)]
       /\ IF out.kind = "raise" /\ ~GenerationCaught(variant)
            THEN /\ pc' = "raised"
                 /\ raised' = "InferenceError"
                 /\ UNCHANGED <<st, marked>>
            ELSE /\ pc' = "route_generate"
                 /\ st' = GenerateNode(variant, st, out)
                 /\ marked' = MarkedUnanswerable(variant, out)
                 /\ UNCHANGED raised
  /\ supersteps' = supersteps + 1
  /\ UNCHANGED <<variant, dataset, prev>>
  /\ UNCHANGED <<schema_info, others>>

\* the conditional edge out of generate_sql; a stage name the edge does not
\* know makes the graph runtime raise
RouteGenerate ==
  /\ pc = "route_generate"
  /\ IF RouteAfterGenerate(variant, st) \in RegisteredTargets(variant)
       THEN pc' = RouteAfterGenerate(variant, st) /\ UNCHANGED raised
       ELSE pc' = "raised" /\ raised' = "KeyError"
  /\ UNCHANGED <<variant, st, dataset, supersteps, calls, marked, fault,
                 stub, prev>>
  /\ UNCHANGED <<schema_info, others>>

\* the execute_sql node
ExecuteSql ==
  /\ pc = "execute_sql"
  /\ supersteps < RecursionLimit
  /\ \E eo \in IF ReachesEngine(variant, st)
                 THEN EngineExecute(st.sql_query, dataset) ELSE {NoOutcome} :
       /\ st' = ExecuteNode(variant, st, eo)
       /\ dataset' = IF ReachesEngine(variant, st) THEN eo.data ELSE dataset
       /\ calls' = [calls EXCEPT
                      !.executor = @ + 1,
                      !.engine = IF ReachesEngine(variant, st) THEN @ + 1 ELSE @]
       /\ fault' = [fault EXCEPT !.execution = eo.msg, !.outcome = eo.kind,
                                 !.rows = eo.n, !.cols = eo.cols]
  /\ pc' = "route_execute"
  /\ supersteps' = supersteps + 1
  /\ UNCHANGED <<variant, marked, raised, stub, prev>>
  /\ UNCHANGED <<schema_info, others>>

\* the edge out of execute_sql
RouteExecute ==
  /\ pc = "route_execute"
  /\ pc' = RouteAfterExecute(variant, st)
  /\ UNCHANGED <<variant, st, dataset, supersteps, calls, marked, fault,
                 raised, stub, prev>>
  /\ UNCHANGED <<schema_info, others>>

\* the generate_response node, and the entry point's return
GenerateResponse ==
  /\ pc = "generate_response"
  /\ supersteps < RecursionLimit
  /\ \E so \in IF ~ReachesSynthesis(variant, st) THEN {NoCall}
               ELSE IF stub.synth = NoCall THEN SynthOutcomes
               ELSE {stub.synth} :
       /\ stub' = IF ReachesSynthesis(variant, st)
                    THEN [stub EXCEPT !.synth = so] ELSE stub
       /\ calls' = [calls EXCEPT
                      !.synthesizer =
                         IF ReachesSynthesis(variant, st) THEN @ + 1 ELSE @]
       /\ fault' = [fault EXCEPT !.synthesis = so.msg]
       /\ IF so.kind = "raise" /\ ~SynthesisCaught(variant)
            THEN /\ pc' = "raised"
                 /\ raised' = "InferenceError"
                 /\ UNCHANGED st
            ELSE /\ pc' = "done"
                 /\ st' = ResponseNode(variant, st, so)
                 /\ UNCHANGED raised
  /\ supersteps' = supersteps + 1
  /\ UNCHANGED <<variant, dataset, marked, prev>>
  /\ UNCHANGED <<schema_info, others>>

\* graph.invoke gives up on a run that is out of supersteps
RecursionLimitReached ==
  /\ pc \in Nodes
  /\ supersteps >= RecursionLimit
  /\ pc' = "raised"
  /\ raised' = "GraphRecursionError"
  /\ UNCHANGED <<variant, st, dataset, supersteps, calls, marked, fault,
                 stub, prev>>
  /\ UNCHANGED <<schema_info, others>>

Next ==
  \/ \E v \in Variants : NewRequest(v)
  \/ Replay
  \/ GenerateSql
  \/ RouteGenerate
  \/ ExecuteSql
  \/ RouteExecute
  \/ GenerateResponse
  \/ RecursionLimitReached

Spec == Init /\ [][Next]_vars

(***************************************************************************)
(* agent.py's ChinookDatabase.execute_query called from several threads.   *)
(* The object holds one connection and one cursor for all callers; each    *)
(* call is the security check, cursor.execute, the read of                 *)
(* cursor.description and cursor.fetchall, and another thread may run      *)
(* between any two of them.                                                *)
(*   cursor   the shared cursor: whose statement it holds (by), whether it *)
(*            has a description, its column names and its unfetched rows   *)
(*   inv      per thread, its call of execute_query: where it is, its      *)
(*            query, the columns it read and whose they were, whose rows   *)
(*            it fetched, and what it returned                             *)
(***************************************************************************)
WrongThread ==
  <<"SQLite objects created in a thread can only be used in that same thread.">>

\* the queries the callers pass
SharedQueries == {<<"select">>, <<" ", "select">>, <<"DELETE">>}

\* sqlite3.connect without check_same_thread=False
CheckSameThread_off == FALSE

\* sqlite3.connect(":memory:") leaves check_same_thread at its default: the
\* connection and its cursors raise in any thread but the one that made them
CheckSameThread == TRUE

Returned(t, result) ==
  inv' = [inv EXCEPT ![t].pc = "returned", ![t].result = result]

\* a thread calls db.execute_query(q)
Call(t, q) ==
  /\ inv[t].pc \in {"idle", "returned"}
  /\ inv' = [inv EXCEPT ![t] = [IdleInvocation EXCEPT !.pc = "check",
                                                      !.query = q]]
  /\ UNCHANGED <<cursor, dataset>>
  /\ UNCHANGED <<invocation, schema_info, db, ret, simple>>

\* the security check
SecurityCheck(t) ==
  /\ inv[t].pc = "check"
  /\ IF A_only_select(inv[t].query)
       THEN inv' = [inv EXCEPT ![t].pc = "execute"]
       ELSE Returned(t, ResErrorDict(OnlySelectAllowed))
  /\ UNCHANGED <<cursor, dataset>>
  /\ UNCHANGED <<invocation, schema_info, db, ret, simple>>

\* self.cursor.execute(query)
CursorExecute(t) ==
  /\ inv[t].pc = "execute"
  /\ IF CheckSameThread /\ t # ConnThread
       THEN /\ Returned(t, ResErrorDict(WrongThread))
            /\ UNCHANGED <<cursor, dataset>>
       ELSE \E eo \in EngineExecute(inv[t].query, dataset) :
              /\ dataset' = eo.data
              /\ cursor' = [by |-> t, described |-> eo.kind = "rows",
                            cols |-> eo.cols, n |-> eo.n, val |-> eo.val]
              /\ IF eo.kind = "error"
                   THEN Returned(t, ResErrorDict(eo.msg))
                   ELSE inv' = [inv EXCEPT ![t].pc = "description"]
  /\ UNCHANGED <<invocation, schema_info, db, ret, simple>>

\* columns = [description[0] for description in self.cursor.description]
ReadDescription(t) ==
  /\ inv[t].pc = "description"
  /\ IF cursor.described
       THEN inv' = [inv EXCEPT ![t].pc = "fetchall",
                               ![t].cols = cursor.cols,
                               ![t].colsBy = cursor.by]
       ELSE Returned(t, ResErrorDict(NoneNotIterable))
  /\ UNCHANGED <<cursor, dataset>>
  /\ UNCHANGED <<invocation, schema_info, db, ret, simple>>

\* rows = self.cursor.fetchall(), and the list of dicts returned
Fetchall(t) ==
  /\ inv[t].pc = "fetchall"
  /\ IF CheckSameThread /\ t # ConnThread
       THEN /\ Returned(t, ResErrorDict(WrongThread))
            /\ UNCHANGED cursor
       ELSE /\ inv' = [inv EXCEPT
                         ![t].pc = "returned",
                         ![t].rowsBy = cursor.by,
                         ![t].result =
                            ResRows(cursor.n, RowDict(inv[t].cols, cursor.val))]
            /\ cursor' = [cursor EXCEPT !.n = 0]
  /\ UNCHANGED dataset
  /\ UNCHANGED <<invocation, schema_info, db, ret, simple>>

SharedNext ==
  \/ \E t \in Threads : \E q \in SharedQueries : Call(t, q)
  \/ \E t \in Threads : SecurityCheck(t)
  \/ \E t \in Threads : CursorExecute(t)
  \/ \E t \in Threads : ReadDescription(t)
  \/ \E t \in Threads : Fetchall(t)

SharedSpec == Init /\ [][SharedNext]_vars

(***************************************************************************)
(* database.py's ChinookDatabase: initialize_database,                     *)
(* get_schema_description, execute_query and close, called in any order.   *)
(*   db    the object: conn (None, open or closed), schema_info (None or   *)
(*         set), the data of the in-memory database behind conn and how    *)
(*         far the bulk load got (loaded), and how the last                *)
(*         initialize_database ended (init)                                *)
(*   ret   what the last method call returned or raised                    *)
(***************************************************************************)
NotInitialized == <<"Database not initialized">>

ClosedDatabase == <<"Cannot operate on a closed database.">>

FailedToInitialize == <<"Failed to initialize database: ">>

\* what a bulk load that stops at a failing statement leaves behind
PartialDatasets == (SUBSET LoadedDataset) \ {LoadedDataset}

Raise(call, msg) == Return(call, "raise", msg, 0, NoRow)

\* initialize_database: the download, the connection, the bulk load and the
\* introspection, any of which may fail; the handler re-raises
initialize_database ==
  /\ \/ \* requests.get or raise_for_status fails
        /\ db' = [db EXCEPT !.init = "failed"]
     \/ \* executescript fails part-way
        \E d \in PartialDatasets :
          db' = [db EXCEPT !.conn = "open", !.data = d, !.loaded = "partial",
                           !.init = "failed"]
     \/ \* _extract_schema_info fails
        db' = [db EXCEPT !.conn = "open", !.data = LoadedDataset,
                         !.loaded = "full", !.init = "failed"]
  /\ ret' = Raise("initialize_database", FailedToInitialize)
  /\ UNCHANGED <<invocation, schema_info, dataset, cursor, inv,
                 simple>>

initialize_database_ok ==
  /\ db' = [conn |-> "open", schema_info |-> "set", data |-> LoadedDataset,
            loaded |-> "full", init |-> "ok"]
  /\ ret' = Return("initialize_database", "None", <<>>, 0, NoRow)
  /\ UNCHANGED <<invocation, schema_info, dataset, cursor, inv,
                 simple>>

get_schema_description ==
  /\ ret' = IF db.schema_info = "None"
              THEN Return("get_schema_description", "text", NotInitialized,
                          0, NoRow)
              ELSE Return("get_schema_description", "description", <<>>,
                          0, NoRow)
  /\ UNCHANGED db
  /\ UNCHANGED <<invocation, schema_info, dataset, cursor, inv,
                 simple>>

\* an execute_query that tests neither self.conn nor the connection's state
execute_query_unguarded(q) ==
  /\ \E eo \in EngineExecute(q, db.data) :
       /\ db' = [db EXCEPT !.data = eo.data]
       /\ ret' = IF eo.kind = "error"
                   THEN Raise("execute_query",
                              <<"SQL execution error: ">> \o eo.msg)
                   ELSE Return("execute_query", "rows", <<>>, eo.n,
                               RowDict(eo.cols, eo.val))
  /\ UNCHANGED <<invocation, schema_info, dataset, cursor, inv,
                 simple>>

\* execute_query(q): rows as dicts, or an Exception
execute_query(q) ==
  /\ IF db.conn = "None"
       THEN ret' = Raise("execute_query", NotInitialized) /\ UNCHANGED db
     ELSE IF db.conn = "closed"
       THEN /\ ret' = Raise("execute_query",
                            <<"SQL execution error: ">> \o ClosedDatabase)
            /\ UNCHANGED db
     ELSE \E eo \in EngineExecute(q, db.data) :
            /\ db' = [db EXCEPT !.data = eo.data]
            /\ ret' = IF eo.kind = "error"
                        THEN Raise("execute_query",
                                   <<"SQL execution error: ">> \o eo.msg)
                        ELSE Return("execute_query", "rows", <<>>, eo.n,
                                    RowDict(eo.cols, eo.val))
  /\ UNCHANGED <<invocation, schema_info, dataset, cursor, inv,
                 simple>>

close ==
  /\ db' = IF db.conn = "None" THEN db ELSE [db EXCEPT !.conn = "closed"]
  /\ ret' = Return("close", "None", <<>>, 0, NoRow)
  /\ UNCHANGED <<invocation, schema_info, dataset, cursor, inv,
                 simple>>

DbNext ==
  \/ initialize_database
  \/ initialize_database_ok
  \/ get_schema_description
  \/ \E q \in SharedQueries : execute_query(q)
  \/ close

DbSpec == Init /\ [][DbNext]_vars

(***************************************************************************)
(* agent_simple.py's rule-based pipeline, query_database_simple            *)
(* (SimpleSpec).  A question is the set of its words, of which at most     *)
(* MaxWords; "kw in query_lower" is a test on the lowered words.           *)
(***************************************************************************)
Keywords ==
  {"top", "artist", "album", "genre", "popular", "most", "revenue", "2009",
   "total", "customer", "country", "location", "countries"}

Words == Keywords \cup {"Genre", "TOTAL", "weather"}

LowerWord(w) ==
  CASE w = "Genre" -> "genre"
    [] w = "TOTAL" -> "total"
    [] OTHER       -> w

\* user_query.lower()
QueryLower(user_query) == {LowerWord(w) : w \in user_query}

Questions == {q \in SUBSET Words : Cardinality(q) <= MaxWords}

\* the SELECT lists of the SQL templates
TemplateColumns ==
  [top_artists |-> <<"Name", "album_count">>,
   genres      |-> <<"Name", "track_count">>,
   revenue     |-> <<"total_revenue", "first_invoice", "last_invoice">>,
   countries   |-> <<"Country", "customer_count">>,
   irrelevant  |-> <<"result">>]

\* the if/elif chain of simple_text_to_sql and generate_natural_response
TopArtistsAsked(ql) == "top" \in ql /\ "artist" \in ql /\ "album" \in ql

GenresAsked(ql) == "genre" \in ql /\ ("popular" \in ql \/ "most" \in ql)

RevenueAsked(ql) == "revenue" \in ql /\ ("2009" \in ql \/ "total" \in ql)

CountriesAsked(ql) ==
  \/ "customer" \in ql /\ ("country" \in ql \/ "location" \in ql)
  \/ "countries" \in ql /\ "customer" \in ql

\* simple_text_to_sql: the template the question's keywords select
simple_text_to_sql(user_query) ==
  LET ql == QueryLower(user_query)
  IN  IF TopArtistsAsked(ql) THEN "top_artists"
      ELSE IF GenresAsked(ql) THEN "genres"
      ELSE IF RevenueAsked(ql) THEN "revenue"
      ELSE IF CountriesAsked(ql) THEN "countries"
      ELSE "irrelevant"

\* what the engine does with a template: the literal SELECT and the
\* aggregate without GROUP BY give one row, the grouped ones up to their
\* LIMIT; a statement on the tables may be rejected
TemplateOutcomes(sql_query) ==
  LET cols == TemplateColumns[sql_query]
      rejected == {EngineRaises(m, dataset) : m \in EngineErrors}
  IN  CASE sql_query = "irrelevant" ->
             {EngineRows(1, cols, "IRRELEVANT_QUERY", dataset)}
        [] sql_query = "revenue" ->
             {EngineRows(1, cols, v, dataset) : v \in {"value", "None"}}
               \cup rejected
        [] OTHER ->
             {EngineRows(n, cols, "value", dataset) : n \in 0 .. MaxRows}
               \cup rejected

\* execute_sql_query: the rows as dicts, [] when anything raised
execute_sql_query(eo) ==
  IF eo.kind = "rows" THEN ResRows(eo.n, RowDict(eo.cols, eo.val))
  ELSE ResRows(0, NoRow)

\* the branch of generate_natural_response's elif chain, tested in another
\* order than simple_text_to_sql tests its templates
ResponseBranch_revenue_first(ql) ==
  IF RevenueAsked(ql) THEN "revenue"
  ELSE IF TopArtistsAsked(ql) THEN "top_artists"
  ELSE IF GenresAsked(ql) THEN "genres"
  ELSE IF CountriesAsked(ql) THEN "countries"
  ELSE "found"

\* the branch of generate_natural_response's elif chain
ResponseBranch(ql) ==
  IF TopArtistsAsked(ql) THEN "top_artists"
  ELSE IF GenresAsked(ql) THEN "genres"
  ELSE IF RevenueAsked(ql) THEN "revenue"
  ELSE IF CountriesAsked(ql) THEN "countries"
  ELSE "found"

\* the columns a branch reads of each row, and the line its text begins with
BranchReads ==
  [top_artists |-> <<"Name", "album_count">>,
   genres      |-> <<"Name", "track_count">>,
   revenue     |-> <<"total_revenue", "first_invoice", "last_invoice">>,
   countries   |-> <<"Country", "customer_count">>,
   found       |-> <<>>]

BranchHeader ==
  [top_artists |-> "Here are the top artists with the most albums:",
   genres      |-> "Here are the most popular music genres by track count:",
   revenue     |-> "The total revenue is $",
   countries   |-> "Here are the countries with the most customers:",
   found       |-> "Found results: "]

NoRevenueData == <<"No revenue data found.">>

\* generate_natural_response: a text, or the KeyError of a row that lacks
\* a column the branch reads
generate_natural_response(user_query, sql_results) ==
  LET branch == ResponseBranch(QueryLower(user_query))
      reads == BranchReads[branch]
      row == sql_results.row
  IN  IF Q_irrelevant(sql_results)
        THEN [kind |-> "text", text |-> DontKnowMusicDatabase]
      ELSE IF ~ResultTruthy(sql_results)
        THEN [kind |-> "text", text |-> DontKnowAvailableData]
      ELSE IF \E i \in DOMAIN reads : reads[i] \notin DOMAIN row
        THEN [kind |-> "KeyError", text |-> <<>>]
      ELSE IF branch = "revenue" /\ row["total_revenue"] = "None"
        THEN [kind |-> "text", text |-> NoRevenueData]
      ELSE [kind |-> "text",
            text |-> <<BranchHeader[branch]>> \o
                       [i \in 1 .. sql_results.n * Len(reads) |->
                          row[reads[((i - 1) % Len(reads)) + 1]]]]

\* query_database_simple(user_question); the function keeps nothing from
\* one call to the next
SimpleAsk(q) ==
  /\ simple.pc = "idle"
  /\ simple' = [IdleSimple EXCEPT !.pc = "simple_text_to_sql",
                                  !.user_question = q]
  /\ UNCHANGED <<invocation, schema_info, dataset, cursor, inv, db, ret>>

SimpleGenerate ==
  /\ simple.pc = "simple_text_to_sql"
  /\ simple' = [simple EXCEPT
                  !.pc = "execute_sql_query",
                  !.sql_query = simple_text_to_sql(simple.user_question)]
  /\ UNCHANGED <<invocation, schema_info, dataset, cursor, inv, db, ret>>

SimpleExecute ==
  /\ simple.pc = "execute_sql_query"
  /\ \E eo \in TemplateOutcomes(simple.sql_query) :
       simple' = [simple EXCEPT !.pc = "generate_natural_response",
                                !.sql_results = execute_sql_query(eo),
                                !.failed = (eo.kind = "error")]
  /\ UNCHANGED <<invocation, schema_info, dataset, cursor, inv, db, ret>>

SimpleRespond ==
  /\ simple.pc = "generate_natural_response"
  /\ LET r == generate_natural_response(simple.user_question,
                                        simple.sql_results)
     IN  simple' = [simple EXCEPT
                      !.pc = IF r.kind = "text" THEN "done" ELSE "raised",
                      !.response = r]
  /\ UNCHANGED <<invocation, schema_info, dataset, cursor, inv, db, ret>>

SimpleNext ==
  \/ \E q \in Questions : SimpleAsk(q)
  \/ SimpleGenerate
  \/ SimpleExecute
  \/ SimpleRespond

SimpleSpec == Init /\ [][SimpleNext]_vars

(***************************************************************************)
(* The schema introspectors, each run once by its constructor on the       *)
(* dataset the connection holds (IntrospectSpec).  The dataset is any set   *)
(* of rows of the tables, up to MaxTableRows rows a table.                  *)
(***************************************************************************)
AllRows == Tables \X (1 .. MaxTableRows)

IntrospectInit ==
  /\ dataset \in SUBSET AllRows
  /\ schema_info = NoSchema
  /\ variant = "agent"
  /\ pc = "idle"
  /\ st = InitialState("agent")
  /\ supersteps = 0
  /\ calls = NoCalls
  /\ marked = FALSE
  /\ fault = NoFault
  /\ raised = "none"
  /\ stub = NoStub
  /\ prev = NoPrev
  /\ cursor = IdleCursor
  /\ inv = [t \in Threads |-> IdleInvocation]
  /\ db = NoDatabase
  /\ ret = NoReturn
  /\ simple = IdleSimple

\* agent.py: SCHEMA_INFO = db.get_schema_info()
A_get_schema_info ==
  /\ schema_info = NoSchema
  /\ variant' = "agent"
  /\ schema_info' = SchemaDescription(dataset)
  /\ UNCHANGED <<pc, st, dataset, supersteps, calls, marked, fault, raised,
                 stub, prev, others>>

\* sql_agent.py: self.schema_info = self._get_schema_info()
S_get_schema_info ==
  /\ schema_info = NoSchema
  /\ variant' = "sql_agent"
  /\ schema_info' = Describe(dataset, SampleLimit)
  /\ UNCHANGED <<pc, st, dataset, supersteps, calls, marked, fault, raised,
                 stub, prev, others>>

\* demo.py: _extract_schema_info keeps _get_sample_data(table_name) of each
\* table, and show_schema prints a sample section for the tables it is not
\* empty for
D_extract_schema_info ==
  /\ schema_info = NoSchema
  /\ variant' = "demo"
  /\ schema_info' = Describe(dataset, DemoSampleLimit)
  /\ UNCHANGED <<pc, st, dataset, supersteps, calls, marked, fault, raised,
                 stub, prev, others>>

IntrospectNext ==
  \/ A_get_schema_info
  \/ S_get_schema_info
  \/ D_extract_schema_info

IntrospectSpec == IntrospectInit /\ [][IntrospectNext]_vars

(***************************************************************************)
(* Properties.                                                             *)
(***************************************************************************)
\* the refusal texts of agent.py, sql_agent.py and text_to_sql_agent.py
RefusalTexts == {DontKnow, DontKnowChinook}

\* C1: when the generated query is marked unanswerable, the entry point
\* returns the fixed refusal text, which contains "don't know", and neither
\* the executor stage nor the storage engine is entered in that invocation.
C1_UnanswerableIsRefused ==
  marked =>
    /\ calls.executor = 0
    /\ calls.engine = 0
    /\ pc # "raised"
    /\ pc \notin {"execute_sql", "route_execute"}
    /\ pc = "done" =>
         st.answer \in RefusalTexts /\ Contains(st.answer, "don't know")

C1_Witness == marked /\ pc = "done" /\ calls.generator = 1


\* a query text that is not a single read-only statement: it holds a write
\* keyword or a second statement
NotSingleReadOnly(q) ==
  (\E i \in DOMAIN q : UpperTok(q[i]) \in WriteKeywords) \/ MultiStatement(q)

\* a single SELECT statement
SingleReadOnly(q) ==
  StartsWith(Upper(Strip(q)), "SELECT") /\ ~NotSingleReadOnly(q)

\* what the pipelines answer when they decline or fail
DeclineTexts == RefusalTexts \cup {EncounteredError}

\* C2: a generated query that is not a single read-only statement is
\* rejected before execution: the storage engine's execute is never reached
\* with it, and the pipeline's answer is a refusal, in every variant.
C2_UnsafeQueryNeverReachesEngine ==
  (calls.generator = 1 /\ NotSingleReadOnly(st.sql_query)) =>
    /\ calls.engine = 0
    /\ pc = "done" => st.answer \in DeclineTexts

\* C3: whatever the generator produces, the dataset held by the storage
\* engine stays the dataset as loaded.
C3_DatasetNeverMutated == dataset = LoadedDataset

\* C4: an invocation whose generated query is a non-empty, answerable,
\* single SELECT runs the executor exactly once with it before it answers,
\* and when the engine returns at least one row the answer is the
\* synthesizer's text.
C4_AcceptedQueryIsExecutedOnce ==
  (pc = "done" /\ ~marked /\ fault.generation = <<>>
     /\ SingleReadOnly(st.sql_query)) =>
    /\ calls.executor = 1
    /\ calls.engine = 1
    /\ (fault.outcome = "rows" /\ fault.rows >= 1) =>
         (calls.synthesizer = 1 /\ st.answer = stub.synth.text)

\* C5: every invocation in which the inference capability responds ends
\* with an answer, and no stage is entered a second time (the edge from
\* execute_sql back to execute_sql never cycles).
C5_EveryRunEndsWithAnAnswer ==
  /\ calls.executor <= 1
  /\ ~(pc = "raised" /\ fault.generation = <<>> /\ fault.synthesis = <<>>)

\* C6: when the inference capability raises during query generation, no
\* exception escapes the entry point, the executor is not invoked, and the
\* answer is the refusal given for an unanswerable question.
C6_GenerationFailureIsRefused ==
  fault.generation # <<>> =>
    /\ pc # "raised"
    /\ calls.executor = 0
    /\ pc = "done" => st.answer \in RefusalTexts

\* the inference capability returned an empty or whitespace-only query
GeneratedEmptyQuery ==
  calls.generator = 1 /\ stub.gen.kind = "text" /\ Strip(stub.gen.text) = <<>>

\* C7: an empty or whitespace-only generated query is a failed generation:
\* the run ends with the refusal text and the executor is not invoked.
C7_EmptyQueryIsRefused ==
  GeneratedEmptyQuery =>
    /\ pc # "raised"
    /\ calls.executor = 0
    /\ pc = "done" => st.answer \in RefusalTexts

\* some fragment of msg appears in text
Discloses(text, msg) ==
  \E i \in DOMAIN text : \E j \in DOMAIN msg : text[i] = msg[j]

\* C8: when the inference capability fails during response synthesis, the
\* entry point still returns, with a canned message that does not hold the
\* raw error text.
C8_SynthesisFailureIsCaught ==
  fault.synthesis # <<>> =>
    /\ pc # "raised"
    /\ pc = "done" =>
         (st.answer \in DeclineTexts /\ ~Discloses(st.answer, fault.synthesis))

\* C9: the answer after a failed execution does not hold the engine's error
\* message, and two runs of one question that differ only in that message
\* give the same answer.
C9_AnswerIndependentOfEngineError ==
  (pc = "done" /\ fault.execution # <<>>) =>
    /\ ~Discloses(st.answer, fault.execution)
    /\ (prev.valid /\ prev.terminal = "done" /\ prev.execution # <<>>) =>
         st.answer = prev.answer

\* the no-data phrasings
NoDataTexts == {NoResultsForQuery, DontKnow}

\* C10: after a successful execution that returned zero rows the answer is
\* the no-data phrasing and the inference capability was not called for
\* synthesis.
C10_ZeroRowsAnsweredWithoutInference ==
  (pc = "done" /\ fault.outcome = "rows" /\ fault.rows = 0) =>
    /\ calls.synthesizer = 0
    /\ st.answer \in NoDataTexts

\* the smaller of two numbers
Min(a, b) == IF a <= b THEN a ELSE b

\* C11: of the N rows a query yields, the result handed to synthesis keeps
\* the first ResultCap when N exceeds ResultCap, and all N otherwise.
C11_ResultSetIsCapped ==
  (calls.synthesizer = 1 /\ fault.outcome = "rows") =>
    st.sql_result.n = Min(fault.rows, ResultCap)

\* a run of a question has ended and the run before it was of the same
\* question, with the same inference responses
SecondRunEnded == prev.valid /\ pc \in {"done", "raised"}

\* the storage engine did the same in both runs
SameEngineOutcome ==
  /\ prev.outcome = fault.outcome
  /\ prev.rows = fault.rows
  /\ prev.execution = fault.execution

\* both runs ended the same way with the same answer
SameEnding ==
  /\ st.answer = prev.answer
  /\ pc = prev.terminal
  /\ raised = prev.raised

\* C12 as stated: two runs in a row of one question, the inference
\* capability responding identically, end with the same answer and the same
\* terminal stage.
C12_Idempotent == SecondRunEnded => SameEnding

\* C12: two runs in a row of one question, the inference capability
\* responding identically and the storage engine returning the same outcome
\* for the query, end with the same answer and the same terminal stage.
C12_IdempotentGivenEngineOutcome ==
  (SecondRunEnded /\ SameEngineOutcome) => SameEnding

C12_Witness ==
  /\ SecondRunEnded
  /\ SameEngineOutcome
  /\ pc = "done"
  /\ fault.outcome = "rows"
  /\ calls.synthesizer = 1

\* the generator signalled an unanswerable question: by the structured
\* confidence / rationale (agent.py), or by the sentinel its variant's
\* prompt asks for (NO_ANSWER, CANNOT_ANSWER, the IRRELEVANT_QUERY query)
SignalledUnanswerable ==
  /\ stub.gen.kind = "text"
  /\ CASE variant = "agent_simple" -> stub.gen.text = IrrelevantQuery
       [] OTHER -> MarkedUnanswerable(variant, stub.gen)

\* the refusals of all variants
AllRefusalTexts == RefusalTexts \cup {DontKnowMusicDatabase}

\* C13: whichever way the generator signals an unanswerable question, the
\* run takes the refusal path: neither the executor nor the storage engine
\* is entered and the answer is the refusal.
C13_SignalsShareTheRefusalPath ==
  SignalledUnanswerable =>
    /\ calls.executor = 0
    /\ calls.engine = 0
    /\ pc = "done" => st.answer \in AllRefusalTexts

\* agent.py's executor is about to run on a non-empty query whose text,
\* stripped and upper-cased, does not start with SELECT
NonSelectAtExecutor ==
  /\ variant = "agent"
  /\ pc = "execute_sql"
  /\ Truthy(st.sql_query)
  /\ ~StartsWith(Upper(Strip(st.sql_query)), "SELECT")

\* C14: for a query that does not start with SELECT, agent.py's
\* execute_query returns the error value "Only SELECT queries are allowed",
\* raises nothing, and does not hand the statement to the storage engine:
\* the dataset is unchanged.
C14_NonSelectIsRefusedUnexecuted ==
  [][(NonSelectAtExecutor /\ supersteps' # supersteps) =>
       /\ pc' = "route_execute"
       /\ raised' = "none"
       /\ st'.sql_result = ResErrorDict(OnlySelectAllowed)
       /\ calls'.engine = calls.engine
       /\ dataset' = dataset]_vars

C14_Witness ==
  /\ variant = "agent"
  /\ pc = "route_execute"
  /\ Head(st.sql_query) = "DELETE"
  /\ st.sql_result = ResErrorDict(OnlySelectAllowed)
  /\ calls.engine = 0

C16_FailedStartupServesNothing ==
  (db.init = "failed" /\ ret.call \in {"get_schema_description", "execute_query"})
    => ret.kind \notin {"description", "rows"}

\* C17: every row the executor returns has as many values as the engine
\* reported column names for the result.
C17_RowsMatchColumnNames ==
  (fault.outcome = "rows" /\ st.sql_result.kind = "rows" /\ st.sql_result.n > 0)
    => Cardinality(DOMAIN st.sql_result.row) = Len(fault.cols)

\* an invocation has been started and no stage has run yet
AtStart == pc = "generate_sql" /\ calls = NoCalls

\* C18: every invocation starts from the fresh initial state of its
\* variant, whatever the invocations before it did, so the state after its
\* generation stage is a function of the inference response alone; and a
\* run takes the stages the previous run of the question took when the
\* inference capability and the storage engine respond as before.
C18_InvocationsStartFresh ==
  /\ AtStart =>
       /\ st = InitialState(variant)
       /\ supersteps = 0
       /\ fault = NoFault
       /\ raised = "none"
       /\ ~marked
  /\ (pc = "route_generate" /\ calls.generator = 1) =>
       st = GenerateNode(variant, InitialState(variant), stub.gen)
  /\ (SecondRunEnded /\ SameEngineOutcome) => calls = prev.calls

\* a request was refused or failed, and the next request has been started
C18_Witness ==
  /\ AtStart
  /\ prev.valid
  /\ prev.answer \in DeclineTexts
  /\ prev.calls.generator = 1

\* C19: the schema description cached at startup is never modified, and
\* every generation prompt is built from it: it describes the dataset as
\* loaded, whatever the invocations have executed since.
C19_SchemaDescriptionIsFixed ==
  /\ schema_info = SchemaDescription(LoadedDataset)
  /\ calls.generator > 0 => fault.prompt = SchemaDescription(LoadedDataset)

\* a generation prompt was built after an invocation had changed the dataset
C19_Witness ==
  /\ calls.generator = 1
  /\ fault.prompt # NoSchema
  /\ dataset # LoadedDataset
  /\ calls.executor = 0

\* C20: every query text agent.py's security check lets through to
\* cursor.execute begins, stripped and upper-cased, with SELECT, holds no
\* write keyword and no second statement.
C20_GateAdmitsOnlySingleReads ==
  (variant = "agent" /\ calls.engine > 0) => SingleReadOnly(st.sql_query)

\* C21: within one invocation the stages run in the order generate,
\* execute, respond, and the generator, the executor and the synthesizer
\* are each entered at most once.
C21_StagesRunOnceInOrder ==
  /\ calls.generator <= 1
  /\ calls.executor <= 1
  /\ calls.synthesizer <= 1
  /\ calls.executor > 0 => calls.generator > 0
  /\ calls.synthesizer > 0 => calls.generator > 0
  /\ pc \in {"execute_sql", "route_execute"} => calls.synthesizer = 0

\* the fixed messages the pipelines answer with instead of a synthesized text
CannedTexts == DeclineTexts \cup {DontKnowAvailableData}

\* C22: when the storage engine rejects the query, the run ends with a
\* fixed canned message and the inference capability is not called for
\* synthesis.
C22_RejectedQueryGetsCannedAnswer ==
  fault.outcome = "error" =>
    /\ calls.synthesizer = 0
    /\ pc # "raised"
    /\ pc = "done" => st.answer \in CannedTexts

C22_Witness ==
  /\ fault.outcome = "error"
  /\ pc = "done"
  /\ variant = "agent"
  /\ st.answer = EncounteredError

\* agent.py's generator returned a candidate that is both marked
\* unanswerable and not a single read-only statement
UnanswerableAndNotReadOnly ==
  /\ variant = "agent"
  /\ calls.generator = 1
  /\ stub.gen.kind = "text"
  /\ A_unanswerable(stub.gen)
  /\ ~SingleReadOnly(stub.gen.text)

\* C23: a candidate that is both marked unanswerable and not read-only is
\* answered with the "I don't know" refusal, not with the error message,
\* and the executor is never entered.
C23_UnanswerableTakesPriority ==
  UnanswerableAndNotReadOnly =>
    /\ calls.executor = 0
    /\ calls.engine = 0
    /\ pc # "raised"
    /\ pc = "done" => st.answer = DontKnow

C23_Witness ==
  /\ UnanswerableAndNotReadOnly
  /\ pc = "done"
  /\ Contains(stub.gen.text, "DELETE")
  /\ stub.gen.confidence = "Low"

\* C24: for every table, the schema description the introspector built
\* holds at most 3 sample rows, however many rows the table holds, and a
\* table with no rows has no sample section in it.
C24_SampleRowsAreCapped ==
  schema_info # NoSchema =>
    \A t \in Tables :
      /\ t \in DOMAIN schema_info.sample =>
           /\ schema_info.sample[t] \subseteq RowsOf(dataset, t)
           /\ Cardinality(schema_info.sample[t]) \in 1 .. 3
      /\ RowsOf(dataset, t) = {} => t \notin DOMAIN schema_info.sample

C24_Witness ==
  /\ schema_info # NoSchema
  /\ variant = "sql_agent"
  /\ Cardinality(RowsOf(dataset, "Artist")) > SampleLimit
  /\ Cardinality(schema_info.sample["Artist"]) = SampleLimit
  /\ RowsOf(dataset, "Album") = {}
  /\ "Album" \notin DOMAIN schema_info.sample

\* C25: whenever a routing function is evaluated after a stage, the stage
\* name it returns is a registered target of that conditional edge (for
\* text_to_sql_agent.py's should_continue after generate_sql: execute_sql
\* or generate_response).
C25_RoutesToRegisteredTargets ==
  /\ pc = "route_generate" =>
       RouteAfterGenerate(variant, st) \in RegisteredTargets(variant)
  /\ pc = "route_execute" =>
       RouteAfterExecute(variant, st) \in RegisteredTargets(variant)

C27_ErrorFreezesTheRun ==
  [][ (variant = "text_to_sql" /\ ~Idle /\ Truthy(st.error)) =>
        /\ st'.sql_query = st.sql_query
        /\ st'.sql_result = st.sql_result
        /\ calls'.engine = calls.engine
        /\ calls'.generator = calls.generator
        /\ calls'.synthesizer = calls.synthesizer
        /\ dataset' = dataset
        /\ pc' # "raised"
        /\ pc' = "done" => st'.answer = DontKnow
    ]_vars

C27_Witness ==
  /\ variant = "text_to_sql"
  /\ pc = "done"
  /\ st.error = QueryCannotBeAnswered
  /\ calls.generator = 1
  /\ calls.engine = 0
  /\ calls.synthesizer = 0
  /\ st.answer = DontKnow

\* C28: every agent.py run whose generator returned ends with a final
\* answer that follows from the executor's outcome: the "I don't know" text exactly when no query was
\* generated or the result is empty, the "I encountered an error" text
\* exactly when the executor returned an error value, and the synthesizer's
\* text exactly when the result has at least one row.
C28_AnswerFollowsExecutorOutcome ==
  (variant = "agent" /\ pc \in {"done", "raised"} /\ stub.gen.kind = "text") =>
    /\ pc = "done"
    /\ (st.answer = DontKnow /\ calls.synthesizer = 0)
         <=> ~ResultTruthy(st.sql_result)
    /\ (st.answer = EncounteredError /\ calls.synthesizer = 0)
         <=> st.sql_result.kind = "error_dict"
    /\ (calls.synthesizer = 1 /\ st.answer = stub.synth.text)
         <=> (st.sql_result.kind = "rows" /\ st.sql_result.n >= 1)

\* C29: in agent_simple.py's rule-based pipeline the response formatter
\* takes, for every question, the branch of the SQL template that
\* simple_text_to_sql chose, so that every column it reads is in each result
\* row and no lookup fails; a question that matches no template is answered
\* with the irrelevance refusal.
C29_FormatterMatchesTemplate ==
  /\ simple.pc # "raised"
  /\ simple.response.kind # "KeyError"
  /\ simple.pc = "done" =>
       LET branch == ResponseBranch(QueryLower(simple.user_question))
           reads == BranchReads[branch]
       IN  /\ simple.sql_query # "irrelevant" => branch = simple.sql_query
           /\ simple.sql_results.n > 0 =>
                \A i \in DOMAIN reads :
                  reads[i] \in DOMAIN simple.sql_results.row
           /\ simple.sql_query = "irrelevant" =>
                simple.response.text = DontKnowMusicDatabase

C29_Witness ==
  /\ simple.pc = "done"
  /\ simple.user_question = {"Genre", "most", "revenue", "TOTAL"}
  /\ simple.sql_query = "genres"
  /\ simple.sql_results.n = 2
  /\ simple.response.kind = "text"
  /\ Head(simple.response.text) = BranchHeader["genres"]

\* whether the engine rejected the query of this agent_simple.py run, and
\* whether it returned zero rows for it
ExecutionFailed ==
  variant = "agent_simple" /\ calls.engine = 1 /\ fault.outcome = "error"

ZeroRows ==
  /\ variant = "agent_simple"
  /\ calls.engine = 1
  /\ fault.outcome = "rows"
  /\ fault.rows = 0

\* C30: in agent_simple.py query execution never raises: an engine error
\* leaves the empty result list a zero-row result leaves, the run makes no
\* inference call after either and ends with the same answer, "I don't know
\* the answer to that question based on the available data."
C30_ExecutionFailureIsZeroRows ==
  (ExecutionFailed \/ ZeroRows) =>
    /\ pc # "raised"
    /\ st.sql_result = ResRows(0, NoRow)
    /\ calls.synthesizer = 0
    /\ pc = "done" => st.answer = DontKnowAvailableData

C30_Witness ==
  /\ ExecutionFailed
  /\ pc = "done"
  /\ st.answer = DontKnowAvailableData
  /\ prev.valid
  /\ prev.outcome = "rows"
  /\ prev.rows = 0
  /\ prev.answer = DontKnowAvailableData

====
